---------------------------- MODULE Spec2Model ----------------------------
(***************************************************************************)
(* A model of trade-trackr: the Textract table extractor                   *)
(* (aws_textract_table_extractor.py), the trade-ledger script              *)
(* (trades_cleaning.py) and the statement cleaner (cleaning.py).           *)
(*                                                                         *)
(* A Python str is a sequence of one-character strings, so that upper(),   *)
(* strip(), split(), startswith(), the regular expression and the date     *)
(* and number conversions are computed character by character.             *)
(***************************************************************************)
EXTENDS Integers, Sequences, FiniteSets, TLC

VARIABLES
    pc,          \* position of the running function or script
    input,       \* the argument of classify_action / parse_ibkr_symbol
    tokens,      \* the pieces the argument was assembled from
    result,      \* the value returned (or the exception raised)
    children,    \* _table_to_dataframe: the TABLE block's resolved CHILD blocks
    cell_blocks, \* _table_to_dataframe: the CELL blocks among them
    grid,        \* _table_to_dataframe: the grid being filled
    ci,          \* _table_to_dataframe: the cell the fill loop is at
    service,     \* the analysis service: the pages of blocks the job yields
    s3,          \* the temporary upload: "none", "uploaded" or "deleted"
    deletes,     \* number of delete_object calls issued
    polls,       \* number of polls answered PENDING or IN_PROGRESS
    last,        \* the last answer to a status poll
    next_token,  \* _wait_and_get_results: next_token (0 is None)
    all_blocks,  \* _wait_and_get_results: all_blocks
    ti,          \* _generate_csv_files: idx of the table being processed
    output_files,\* _generate_csv_files: output_files
    csv,         \* the table CSV files on disk: name -> rows of fields
    exc,         \* the exception in flight inside the try block
    outcome,     \* how extract_tables_from_pdf ended
    printed,     \* _generate_csv_files: what it printed about the tables
    file,        \* load_and_normalize_csv: the CSV file read (lines of fields)
    norm,        \* load_and_normalize_csv: the frame returned, or the error
    which,       \* which row filter is being applied
    table,       \* the frame the row filter is applied to
    passes,      \* how many times the filter has been applied
    once,        \* the frame after the first application
    orig,        \* the frame before the first application
    files,       \* the batch of CSV files, in iteration order
    fi,          \* the file the batch loop is at
    df_list,     \* the normalized frames collected
    skipped,     \* the files skipped: name and reason as printed
    full_df,     \* the merged frame
    ledger,      \* the final view written to master_ledger.csv
    all_summaries \* cleaning.py: the summary totals collected

pureVars == <<input, tokens, result>>
gridVars == <<children, cell_blocks, grid, ci>>
jobVars == <<service, s3, deletes, polls, last, next_token, all_blocks, ti,
             output_files, csv, exc, outcome, printed>>
normVars == <<file, norm>>
filterVars == <<which, table, passes, once, orig>>
batchVars == <<files, fi, df_list, skipped, full_df, ledger, all_summaries>>
vars == <<pc, pureVars, gridVars, jobVars, normVars, filterVars, batchVars>>

\* what each part of the program leaves alone
NotPure == <<gridVars, jobVars, normVars, filterVars, batchVars>>
NotGrid == <<pureVars, jobVars, normVars, filterVars, batchVars>>
NotJob == <<pureVars, gridVars, normVars, filterVars, batchVars>>
NotNorm == <<pureVars, gridVars, jobVars, filterVars, batchVars>>
NotFilter == <<pureVars, gridVars, jobVars, normVars, batchVars>>
NotBatch == <<pureVars, gridVars, jobVars, normVars, filterVars>>

(***************************************************************************)
(* Characters and strings                                                  *)
(***************************************************************************)
LowerSeq == <<"a","b","c","d","e","f","g","h","i","j","k","l","m",
              "n","o","p","q","r","s","t","u","v","w","x","y","z">>
UpperSeq == <<"A","B","C","D","E","F","G","H","I","J","K","L","M",
              "N","O","P","Q","R","S","T","U","V","W","X","Y","Z">>
DigitSeq == <<"0","1","2","3","4","5","6","7","8","9">>

Range(f) == {f[i] : i \in DOMAIN f}
UpperSet == Range(UpperSeq)
LowerSet == Range(LowerSeq)
DigitSet == Range(DigitSeq)
\* what \s and str.strip() treat as whitespace (the ASCII part)
SpaceSet == {" ", "\t"}

IndexIn(seq, c) == CHOOSE i \in DOMAIN seq : seq[i] = c
DigitVal(c) == IndexIn(DigitSeq, c) - 1
DigitChar(n) == DigitSeq[n + 1]

\* str.upper(), one character
UpperChar(c) == IF c \in LowerSet THEN UpperSeq[IndexIn(LowerSeq, c)] ELSE c
\* str.upper()
StrUpper(s) == [i \in DOMAIN s |-> UpperChar(s[i])]

\* Python's `sub in s`
Contains(s, sub) ==
    \E i \in 1..(Len(s) - Len(sub) + 1) : SubSeq(s, i, i + Len(sub) - 1) = sub

\* str.startswith
StartsWith(s, p) == Len(s) >= Len(p) /\ SubSeq(s, 1, Len(p)) = p

\* str.strip(): drop leading and trailing whitespace
StrStrip(s) ==
    LET keep == {i \in DOMAIN s : s[i] \notin SpaceSet}
    IN  IF keep = {} THEN <<>>
        ELSE LET lo == CHOOSE i \in keep : \A j \in keep : i <= j
                 hi == CHOOSE i \in keep : \A j \in keep : i >= j
             IN  SubSeq(s, lo, hi)

\* s.split(' ')[0]: the text before the first space character (all of s if none)
SplitFirst(s) ==
    LET sp == {i \in DOMAIN s : s[i] = " "}
    IN  IF sp = {} THEN s
        ELSE SubSeq(s, 1, (CHOOSE i \in sp : \A j \in sp : i <= j) - 1)

\* the end of the longest run of characters of class C that starts at i
\* (i-1 when s[i] is not in C): how a greedy C+ or C* consumes
RunEnd(s, i, C) ==
    CHOOSE j \in (i - 1)..Len(s) :
        /\ \A k \in i..j : s[k] \in C
        /\ (j = Len(s) \/ s[j + 1] \notin C)

RECURSIVE ConcatAll(_)
ConcatAll(ss) == IF ss = <<>> THEN <<>> ELSE Head(ss) \o ConcatAll(Tail(ss))

Spaces(n) == [i \in 1..n |-> " "]

(***************************************************************************)
(* classify_action (trades_cleaning.py)                                    *)
(***************************************************************************)
sO == <<"O">>
CloseMarks == {<<"C">>, <<"A">>, <<"E","P">>, <<"E","X">>}

classify_action(code) ==
    LET up == StrUpper(code)
    IN  IF Contains(up, sO) THEN "OPEN"
        ELSE IF \E x \in CloseMarks : Contains(up, x) THEN "CLOSED"
        ELSE "UNKNOWN"

\* the raw codes tried: every string over these characters up to MaxCodeLen
MaxCodeLen == 3
CodeAlphabet == {"O", "o", "C", "A", "E", "e", "P", "p", "X", ";", " "}
CodeStrings == UNION {[1..n -> CodeAlphabet] : n \in 0..MaxCodeLen}

NoTokens == [kind |-> "none"]
NoResult == [kind |-> "none"]

\* the variables of the parts that are not running
PureIdle == input = <<>> /\ tokens = NoTokens /\ result = NoResult
GridIdle == children = <<>> /\ cell_blocks = <<>> /\ grid = <<>> /\ ci = 0
JobIdle ==
    /\ service = <<>> /\ s3 = "none" /\ deletes = 0 /\ polls = 0 /\ last = NoResult
    /\ next_token = 0 /\ all_blocks = <<>> /\ ti = 0 /\ output_files = <<>>
    /\ csv = <<>> /\ exc = NoResult /\ outcome = NoResult /\ printed = <<>>
NormIdle == file = <<>> /\ norm = NoResult
FilterIdle ==
    /\ which = "none" /\ table = NoResult /\ passes = 0 /\ once = NoResult
    /\ orig = NoResult
BatchIdle ==
    /\ files = <<>> /\ fi = 0 /\ df_list = <<>> /\ skipped = <<>>
    /\ full_df = NoResult /\ ledger = NoResult /\ all_summaries = <<>>
TablesIdle == NormIdle /\ FilterIdle /\ BatchIdle

ClassifyInit ==
    /\ pc = "classify"
    /\ input \in CodeStrings
    /\ tokens = NoTokens
    /\ result = NoResult
    /\ GridIdle
    /\ JobIdle
    /\ TablesIdle

Classify ==
    /\ pc = "classify"
    /\ result' = [kind |-> "value", value |-> classify_action(input)]
    /\ pc' = "classified"
    /\ UNCHANGED <<input, tokens, NotPure>>

ClassifyNext == Classify
SpecClassify == ClassifyInit /\ [][ClassifyNext]_vars

(***************************************************************************)
(* parse_ibkr_symbol (trades_cleaning.py)                                  *)
(***************************************************************************)
MonthAbbr ==
    <<<<"J","A","N">>, <<"F","E","B">>, <<"M","A","R">>,
      <<"A","P","R">>, <<"M","A","Y">>, <<"J","U","N">>,
      <<"J","U","L">>, <<"A","U","G">>, <<"S","E","P">>,
      <<"O","C","T">>, <<"N","O","V">>, <<"D","E","C">>>>

IsLeap(y) == (y % 4 = 0 /\ y % 100 # 0) \/ y % 400 = 0
DaysIn(y, m) ==
    IF m = 2 THEN (IF IsLeap(y) THEN 29 ELSE 28)
    ELSE IF m \in {4, 6, 9, 11} THEN 30 ELSE 31

\* datetime.strptime(tok, "%d%b%y") on a token the pattern let through
\* (two digits, three letters, two digits): the date, or ValueError.
\* %d takes 01..31; %b a month abbreviation; %y puts 00..68 in 20xx and
\* 69..99 in 19xx; the day must exist in that month.
StrpTime(tok) ==
    LET dd  == 10 * DigitVal(tok[1]) + DigitVal(tok[2])
        mmm == StrUpper(SubSeq(tok, 3, 5))
        yy  == 10 * DigitVal(tok[6]) + DigitVal(tok[7])
        yr  == IF yy < 69 THEN 2000 + yy ELSE 1900 + yy
    IN  IF dd < 1 \/ dd > 31 THEN [ok |-> FALSE]
        ELSE IF mmm \notin Range(MonthAbbr) THEN [ok |-> FALSE]
        ELSE LET mo == IndexIn(MonthAbbr, mmm)
             IN  IF dd > DaysIn(yr, mo) THEN [ok |-> FALSE]
                 ELSE [ok |-> TRUE, y |-> yr, m |-> mo, d |-> dd]

TwoDigits(n) == <<DigitChar(n \div 10), DigitChar(n % 10)>>
\* strftime("%Y-%m-%d")
StrfTime(dt) ==
    TwoDigits(dt.y \div 100) \o TwoDigits(dt.y % 100) \o <<"-">>
        \o TwoDigits(dt.m) \o <<"-">> \o TwoDigits(dt.d)

RECURSIVE DigitsVal(_)
\* the number a run of digits denotes
DigitsVal(ds) ==
    IF ds = <<>> THEN 0
    ELSE 10 * DigitsVal(SubSeq(ds, 1, Len(ds) - 1)) + DigitVal(ds[Len(ds)])

RECURSIVE DropTrailingZeros(_)
DropTrailingZeros(ds) ==
    IF ds # <<>> /\ ds[Len(ds)] = "0"
    THEN DropTrailingZeros(SubSeq(ds, 1, Len(ds) - 1))
    ELSE ds

\* a decimal number: its integer part and its fraction digits (no trailing
\* zeros), so that 220, 220.0 and 0220 are one value
Decimal(ip, fr) == [int |-> ip, frac |-> fr]
Zero == Decimal(0, <<>>)

\* float(tok) on a token of digits and dots: the value, or ValueError when
\* there is more than one dot or no digit
FloatOf(tok) ==
    LET dots == {i \in DOMAIN tok : tok[i] = "."}
    IN  IF Cardinality(dots) > 1 \/ Len(tok) - Cardinality(dots) < 1
        THEN [ok |-> FALSE]
        ELSE LET p == IF dots = {} THEN Len(tok) + 1 ELSE CHOOSE i \in dots : TRUE
             IN  [ok |-> TRUE,
                  value |-> Decimal(DigitsVal(SubSeq(tok, 1, p - 1)),
                                    DropTrailingZeros(SubSeq(tok, p + 1, Len(tok))))]

RightSet == {"C", "P", "c", "p"}

\* re.search(r"^([A-Z]+)\s+(\d{2}[A-Z]{3}\d{2})\s+([\d\.]+)\s+([CPcp])", s).
\* Neighbouring pieces of the pattern take disjoint character classes, so
\* each greedy run is the longest one and there is nothing to backtrack into.
OptionMatch(s) ==
    LET e1 == RunEnd(s, 1, UpperSet)                  \* ([A-Z]+)
        w1 == RunEnd(s, e1 + 1, SpaceSet)             \* \s+
        e2 == w1 + 7                                  \* (\d{2}[A-Z]{3}\d{2})
        w2 == RunEnd(s, e2 + 1, SpaceSet)             \* \s+
        e3 == RunEnd(s, w2 + 1, DigitSet \cup {"."})  \* ([\d\.]+)
        w3 == RunEnd(s, e3 + 1, SpaceSet)             \* \s+
    IN  IF /\ e1 >= 1
           /\ w1 > e1
           /\ e2 <= Len(s)
           /\ \A k \in {w1 + 1, w1 + 2, w1 + 6, w1 + 7} : s[k] \in DigitSet
           /\ \A k \in {w1 + 3, w1 + 4, w1 + 5} : s[k] \in UpperSet
           /\ w2 > e2
           /\ e3 > w2
           /\ w3 > e3
           /\ w3 + 1 <= Len(s)
           /\ s[w3 + 1] \in RightSet
        THEN [ok |-> TRUE,
              g1 |-> SubSeq(s, 1, e1),
              g2 |-> SubSeq(s, w1 + 1, e2),
              g3 |-> SubSeq(s, w2 + 1, e3),
              g4 |-> s[w3 + 1]]
        ELSE [ok |-> FALSE]

\* the right-indicator compared without upper()
InstrumentOf_CaseSensitive(right) ==
    IF right = "C" THEN "Call Option" ELSE "Put Option"

\* 'Call Option' if match.group(4).upper() == 'C' else 'Put Option'
InstrumentOf(right) ==
    IF UpperChar(right) = "C" THEN "Call Option" ELSE "Put Option"

Raised(what) == [kind |-> "raise", error |-> what]
None == <<"<None>">>

\* parse_ibkr_symbol: the record returned, or the ValueError that strptime
\* or float lets out of the function
parse_ibkr_symbol(raw) ==
    LET symbol == StrStrip(raw)
        match  == OptionMatch(symbol)
    IN  IF match.ok
        THEN LET dt == StrpTime(match.g2)
                 fl == FloatOf(match.g3)
             IN  IF ~dt.ok THEN Raised("ValueError")
                 ELSE IF ~fl.ok THEN Raised("ValueError")
                 ELSE [kind |-> "value",
                       Symbol |-> match.g1,
                       Expiry |-> StrfTime(dt),
                       Strike |-> fl.value,
                       Instrument |-> InstrumentOf(match.g4)]
        ELSE [kind |-> "value",
              Symbol |-> SplitFirst(symbol),
              Expiry |-> None,
              Strike |-> Zero,
              Instrument |-> "Stock"]

\* the descriptions tried: lead ticker sep1 expiry sep2 strike sep3 right tail,
\* each piece from a small pool that holds well-formed and malformed tokens,
\* each separator 0..MaxSpaces spaces
MaxSpaces == 2
TickerPool == {<<>>, <<"A","M">>, <<"a","M">>}
ExpiryPool == {<<>>,
               <<"0","5","D","E","C","2","5">>,
               <<"0","7","N","O","V","6","9">>,
               <<"2","9","F","E","B","2","4">>,
               <<"2","9","F","E","B","2","5">>,
               <<"9","9","X","Y","Z","2","5">>,
               <<"0","0","J","A","N","2","5">>}
StrikePool == {<<>>, <<"2","2","0">>, <<"1","7","2",".","5">>,
               <<"1",".","2",".","3">>, <<".">>}
RightPool == {<<>>, <<"C">>, <<"P">>, <<"c">>, <<"p">>, <<"X">>}
LeadPool == {<<>>, <<" ">>}
TailPool == {<<>>, <<"A","L","L">>}

TokenSets ==
    [lead : LeadPool, ticker : TickerPool, n1 : 0..MaxSpaces, expiry : ExpiryPool,
     n2 : 0..MaxSpaces, strike : StrikePool, n3 : 0..MaxSpaces, right : RightPool,
     tail : TailPool]

Assemble(t) ==
    ConcatAll(<<t.lead, t.ticker, Spaces(t.n1), t.expiry, Spaces(t.n2), t.strike,
                Spaces(t.n3), t.right, t.tail>>)

ParseInit ==
    /\ pc = "parse"
    /\ tokens \in TokenSets
    /\ input = Assemble(tokens)
    /\ result = NoResult
    /\ GridIdle
    /\ JobIdle
    /\ TablesIdle

ParseSymbol ==
    /\ pc = "parse"
    /\ result' = parse_ibkr_symbol(input)
    /\ pc' = "parsed"
    /\ UNCHANGED <<input, tokens, NotPure>>

ParseNext == ParseSymbol
SpecParse == ParseInit /\ [][ParseNext]_vars

(***************************************************************************)
(* TextractTableExtractor._table_to_dataframe and _get_text_from_cell      *)
(* (aws_textract_table_extractor.py)                                       *)
(***************************************************************************)
RECURSIVE Join(_, _)
\* sep.join(parts)
Join(parts, sep) ==
    IF parts = <<>> THEN <<>>
    ELSE IF Len(parts) = 1 THEN parts[1]
    ELSE parts[1] \o sep \o Join(Tail(parts), sep)

\* a key a block may lack
Absent == [has |-> FALSE]
Present(v) == [has |-> TRUE, v |-> v]
\* dict.get(key, default)
GetOr(field, default) == IF field.has THEN field.v ELSE default

\* _get_text_from_cell: the texts of the cell's WORD children, joined by one
\* space; '' when the cell has no Relationships or no WORD child
GetTextFromCell(cell) == Join(cell.words, <<" ">>)

\* blocks_map.get(child_id) for each id of the table's CHILD relationships:
\* None, a block of another type, or a CELL block
NoBlock == [BlockType |-> "None"]
WordBlock == [BlockType |-> "WORD"]
WordsPool == {<<>>, <<<<"x">>>>, <<<<"x">>, <<"y">>>>}
IndexPool == {1, 2}
SpanPool == {Absent, Present(1), Present(2)}
CellPool ==
    [BlockType : {"CELL"}, RowIndex : IndexPool, ColumnIndex : IndexPool,
     RowSpan : SpanPool, ColumnSpan : SpanPool, words : WordsPool]
ChildPool == CellPool \cup {NoBlock, WordBlock}
MaxChildren == 2

RECURSIVE SelectCells(_)
\* if cell and cell['BlockType'] == 'CELL': cell_blocks.append(cell)
SelectCells(cs) ==
    IF cs = <<>> THEN <<>>
    ELSE IF Head(cs).BlockType = "CELL" THEN <<Head(cs)>> \o SelectCells(Tail(cs))
    ELSE SelectCells(Tail(cs))

MaxOf(S) == CHOOSE m \in S : \A x \in S : x <= m
MaxRow(cells) == MaxOf({cells[i].RowIndex : i \in DOMAIN cells})
MaxCol(cells) == MaxOf({cells[i].ColumnIndex : i \in DOMAIN cells})

\* [['' for _ in range(max_col)] for _ in range(max_row)]
EmptyGrid(max_row, max_col) == [r \in 1..max_row |-> [c \in 1..max_col |-> <<>>]]

\* whether the cell's span reaches grid position (r, c), 1-based
Covers(cell, r, c) ==
    /\ r >= cell.RowIndex
    /\ r < cell.RowIndex + GetOr(cell.RowSpan, 1)
    /\ c >= cell.ColumnIndex
    /\ c < cell.ColumnIndex + GetOr(cell.ColumnSpan, 1)

\* the guard of the write: if grid[target_row][target_col] == ''
MayWrite(old) == old = <<>>

\* one pass of `for cell in cell_blocks`: every position of the span that
\* lies in the grid is written when MayWrite allows
FillCell(g, cell) ==
    LET text == GetTextFromCell(cell)
    IN  [r \in DOMAIN g |->
            [c \in DOMAIN g[r] |->
                IF Covers(cell, r, c) /\ MayWrite(g[r][c]) THEN text ELSE g[r][c]]]

GridInit ==
    /\ pc = "resolve"
    /\ children \in UNION {[1..n -> ChildPool] : n \in 0..MaxChildren}
    /\ cell_blocks = <<>>
    /\ grid = <<>>
    /\ ci = 0
    /\ PureIdle
    /\ JobIdle
    /\ TablesIdle

\* the table has no CELL child: return None
ReturnNone ==
    /\ pc = "resolve"
    /\ SelectCells(children) = <<>>
    /\ pc' = "none"
    /\ UNCHANGED <<gridVars, NotGrid>>

\* the cells are collected, the dimensions found and the empty grid made
StartFill ==
    /\ pc = "resolve"
    /\ SelectCells(children) # <<>>
    /\ cell_blocks' = SelectCells(children)
    /\ grid' = EmptyGrid(MaxRow(cell_blocks'), MaxCol(cell_blocks'))
    /\ ci' = 1
    /\ pc' = "fill"
    /\ UNCHANGED <<children, NotGrid>>

FillNext ==
    /\ pc = "fill"
    /\ ci <= Len(cell_blocks)
    /\ grid' = FillCell(grid, cell_blocks[ci])
    /\ ci' = ci + 1
    /\ UNCHANGED <<pc, children, cell_blocks, NotGrid>>

\* return pd.DataFrame(grid)
ReturnGrid ==
    /\ pc = "fill"
    /\ ci > Len(cell_blocks)
    /\ pc' = "returned"
    /\ UNCHANGED <<gridVars, NotGrid>>

GridNext == ReturnNone \/ StartFill \/ FillNext \/ ReturnGrid
SpecGrid == GridInit /\ [][GridNext]_vars

(***************************************************************************)
(* TextractTableExtractor.extract_tables_from_pdf, _wait_and_get_results,  *)
(* _generate_csv_files, _save_table_as_csv                                 *)
(***************************************************************************)
RECURSIVE FillAll(_, _)
\* the whole fill loop
FillAll(g, cells) ==
    IF cells = <<>> THEN g ELSE FillAll(FillCell(g, Head(cells)), Tail(cells))

NoneDf == [none |-> TRUE]
\* _table_to_dataframe: None when the table has no CELL child, else the grid
TableToDataframe(kids) ==
    LET cells == SelectCells(kids)
    IN  IF cells = <<>> THEN NoneDf
        ELSE [none |-> FALSE,
              grid |-> FillAll(EmptyGrid(MaxRow(cells), MaxCol(cells)), cells)]

\* _save_table_as_csv: every cell prefixed with an apostrophe, every field
\* quoted, no header line; the file is its rows of field values
SaveTableAsCsv(df) ==
    [r \in DOMAIN df |-> [c \in DOMAIN df[r] |-> <<"'">> \o df[r][c]]]

\* the blocks a page may hold
LineBlock == [BlockType |-> "LINE", kids |-> <<>>]
TableBlock(kids) == [BlockType |-> "TABLE", kids |-> kids]
CellA ==
    [BlockType |-> "CELL", RowIndex |-> 1, ColumnIndex |-> 1,
     RowSpan |-> Absent, ColumnSpan |-> Absent, words |-> <<<<"x">>>>]
CellB ==
    [BlockType |-> "CELL", RowIndex |-> 1, ColumnIndex |-> 2,
     RowSpan |-> Present(1), ColumnSpan |-> Present(1), words |-> <<>>]
PagePool ==
    {<<>>,
     <<LineBlock>>,
     <<TableBlock(<<CellA, CellB>>)>>,
     <<TableBlock(<<NoBlock>>)>>,
     <<LineBlock, TableBlock(<<CellA>>), TableBlock(<<>>)>>,
     <<TableBlock(<<WordBlock>>), TableBlock(<<CellA>>)>>}
MaxPages == 2
MaxPolls == 2

\* what get_document_analysis may answer to a status poll
StatusPool == {"PENDING", "IN_PROGRESS", "SUCCEEDED", "FAILED", "PARTIAL_SUCCESS"}
MessagePool == {Absent, Present("m1")}

RECURSIVE SelectTables(_)
\* [b for b in blocks if b['BlockType'] == 'TABLE']
SelectTables(bs) ==
    IF bs = <<>> THEN <<>>
    ELSE IF Head(bs).BlockType = "TABLE" THEN <<Head(bs)>> \o SelectTables(Tail(bs))
    ELSE SelectTables(Tail(bs))

\* Exception(f"Textract job failed: {error_msg}") and
\* Exception(f"Unexpected status: {status}"): the message, piece by piece
FailedMessage(answer) ==
    <<"Textract job failed: ", GetOr(answer.StatusMessage, "Unknown error")>>
UnexpectedMessage(answer) == <<"Unexpected status: ", answer.JobStatus>>
\* an error of a collaborator (boto3, the file system)
CollaboratorError == <<"collaborator error">>

JobInit ==
    /\ pc = "upload"
    /\ service \in UNION {[1..n -> PagePool] : n \in 1..MaxPages}
    /\ s3 = "none" /\ deletes = 0 /\ polls = 0 /\ last = NoResult
    /\ next_token = 0 /\ all_blocks = <<>> /\ ti = 0 /\ output_files = <<>>
    /\ csv = <<>> /\ exc = NoResult /\ outcome = NoResult /\ printed = <<>>
    /\ PureIdle
    /\ GridIdle
    /\ TablesIdle

\* self.s3.upload_file(...), before the try block
Upload ==
    /\ pc = "upload"
    /\ \/ s3' = "uploaded" /\ pc' = "start" /\ UNCHANGED outcome
       \/ /\ outcome' = [kind |-> "raise", message |-> CollaboratorError]
          /\ pc' = "raised"
          /\ UNCHANGED s3
    /\ UNCHANGED <<service, deletes, polls, last, next_token, all_blocks, ti,
                   output_files, csv, exc, printed, NotJob>>

\* self.textract.start_document_analysis(...)
StartJob ==
    /\ pc = "start"
    /\ \/ pc' = "poll" /\ UNCHANGED exc
       \/ exc' = [kind |-> "raise", message |-> CollaboratorError] /\ pc' = "finally"
    /\ UNCHANGED <<service, s3, deletes, polls, last, next_token, all_blocks, ti,
                   output_files, csv, outcome, printed, NotJob>>

\* the polling loop with its exceptions raised outside the try block
AfterPoll_Unprotected(answer) ==
    IF answer.JobStatus = "SUCCEEDED"
        THEN [pc |-> "paginate", exc |-> NoResult]
    ELSE IF answer.JobStatus \in {"IN_PROGRESS", "PENDING"}
        THEN [pc |-> "poll", exc |-> NoResult]
    ELSE [pc |-> "raised",
          exc |-> [kind |-> "raise", message |-> UnexpectedMessage(answer)]]

\* what the polling loop does with one answer
AfterPoll(answer) ==
    IF answer.JobStatus = "SUCCEEDED"
        THEN [pc |-> "paginate", exc |-> NoResult]
    ELSE IF answer.JobStatus = "FAILED"
        THEN [pc |-> "finally",
              exc |-> [kind |-> "raise", message |-> FailedMessage(answer)]]
    ELSE IF answer.JobStatus \in {"IN_PROGRESS", "PENDING"}
        THEN [pc |-> "poll", exc |-> NoResult]
    ELSE [pc |-> "finally",
          exc |-> [kind |-> "raise", message |-> UnexpectedMessage(answer)]]

\* one turn of the polling loop; the service answers PENDING or IN_PROGRESS
\* at most MaxPolls times
Poll ==
    /\ pc = "poll"
    /\ \E st \in StatusPool, msg \in MessagePool :
          LET answer == [JobStatus |-> st, StatusMessage |-> msg]
          IN  /\ st \in {"IN_PROGRESS", "PENDING"} => polls < MaxPolls
              /\ last' = answer
              /\ polls' = IF st \in {"IN_PROGRESS", "PENDING"} THEN polls + 1 ELSE polls
              /\ pc' = AfterPoll(answer).pc
              /\ exc' = AfterPoll(answer).exc
    /\ UNCHANGED <<service, s3, deletes, next_token, all_blocks, ti,
                   output_files, csv, outcome, printed, NotJob>>

\* get_document_analysis raises while polling
PollError ==
    /\ pc = "poll"
    /\ exc' = [kind |-> "raise", message |-> CollaboratorError]
    /\ pc' = "finally"
    /\ UNCHANGED <<service, s3, deletes, polls, last, next_token, all_blocks, ti,
                   output_files, csv, outcome, printed, NotJob>>

\* one turn of the pagination loop: page 1 without a token, then the page the
\* token names; the last page carries no NextToken
GetPage ==
    /\ pc = "paginate"
    /\ LET n == IF next_token # 0 THEN next_token ELSE 1
           tok == IF n < Len(service) THEN n + 1 ELSE 0
       IN  /\ all_blocks' = all_blocks \o service[n]
           /\ next_token' = tok
           /\ pc' = IF tok = 0 THEN "save_json" ELSE "paginate"
    /\ UNCHANGED <<service, s3, deletes, polls, last, ti, output_files, csv, exc,
                   outcome, printed, NotJob>>

\* get_document_analysis raises while collecting pages
PageError ==
    /\ pc = "paginate"
    /\ exc' = [kind |-> "raise", message |-> CollaboratorError]
    /\ pc' = "finally"
    /\ UNCHANGED <<service, s3, deletes, polls, last, next_token, all_blocks, ti,
                   output_files, csv, outcome, printed, NotJob>>

\* api_response.json is written (or writing it fails)
SaveJson ==
    /\ pc = "save_json"
    /\ \/ pc' = "generate" /\ UNCHANGED exc
       \/ exc' = [kind |-> "raise", message |-> CollaboratorError] /\ pc' = "finally"
    /\ UNCHANGED <<service, s3, deletes, polls, last, next_token, all_blocks, ti,
                   output_files, csv, outcome, printed, NotJob>>

\* print(f"Found {len(table_blocks)} tables") and, without any,
\* print("No tables found in document")
FoundReport(n) ==
    <<[what |-> "Found tables", n |-> n]>>
        \o (IF n = 0 THEN <<[what |-> "No tables found in document", n |-> 0]>> ELSE <<>>)

\* the table passed over without a word
TableReport_Silent(df, idx) == <<>>

\* if df is None: print(f"Could not process Table {idx}")
TableReport(df, idx) ==
    IF df = NoneDf THEN <<[what |-> "Could not process Table", n |-> idx]>> ELSE <<>>

\* _generate_csv_files up to the loop: no TABLE block returns []
GenStart ==
    /\ pc = "generate"
    /\ output_files' = <<>>
    /\ printed' = printed \o FoundReport(Len(SelectTables(all_blocks)))
    /\ IF SelectTables(all_blocks) = <<>>
       THEN pc' = "finally" /\ UNCHANGED ti
       ELSE pc' = "tables" /\ ti' = 1
    /\ UNCHANGED <<service, s3, deletes, polls, last, next_token, all_blocks,
                   csv, exc, outcome, NotJob>>

\* one turn of `for idx, table_block in enumerate(table_blocks, start=1)`:
\* a table without cells is reported and passed over; otherwise <prefix>-<idx>.csv is
\* written and its name appended
GenTable ==
    /\ pc = "tables"
    /\ ti <= Len(SelectTables(all_blocks))
    /\ LET df == TableToDataframe(SelectTables(all_blocks)[ti].kids)
       IN  IF df = NoneDf
           THEN UNCHANGED <<output_files, csv>>
           ELSE /\ csv' = Append(csv, [name |-> ti, rows |-> SaveTableAsCsv(df.grid)])
                /\ output_files' = Append(output_files, ti)
    /\ printed' = printed \o TableReport(TableToDataframe(SelectTables(all_blocks)[ti].kids), ti)
    /\ ti' = ti + 1
    /\ UNCHANGED <<pc, service, s3, deletes, polls, last, next_token, all_blocks,
                   exc, outcome, NotJob>>

\* writing a table's CSV file fails
GenError ==
    /\ pc = "tables"
    /\ ti <= Len(SelectTables(all_blocks))
    /\ TableToDataframe(SelectTables(all_blocks)[ti].kids) # NoneDf
    /\ exc' = [kind |-> "raise", message |-> CollaboratorError]
    /\ pc' = "finally"
    /\ UNCHANGED <<service, s3, deletes, polls, last, next_token, all_blocks, ti,
                   output_files, csv, outcome, printed, NotJob>>

\* return output_files
GenDone ==
    /\ pc = "tables"
    /\ ti > Len(SelectTables(all_blocks))
    /\ pc' = "finally"
    /\ UNCHANGED <<jobVars, printed, NotJob>>

\* the finally block: delete the temporary object, then return the files or
\* let the exception through
Finally ==
    /\ pc = "finally"
    /\ s3' = "deleted"
    /\ deletes' = deletes + 1
    /\ IF exc = NoResult
       THEN outcome' = [kind |-> "return", files |-> output_files] /\ pc' = "returned"
       ELSE outcome' = exc /\ pc' = "raised"
    /\ UNCHANGED <<service, polls, last, next_token, all_blocks, ti, output_files,
                   csv, exc, printed, NotJob>>

JobNext ==
    \/ Upload \/ StartJob \/ Poll \/ PollError \/ GetPage \/ PageError \/ SaveJson
    \/ GenStart \/ GenTable \/ GenError \/ GenDone \/ Finally
SpecJob == JobInit /\ [][JobNext]_vars

(***************************************************************************)
(* Data frames, load_and_normalize_csv and _filter_aggregate_rows          *)
(* (trades_cleaning.py)                                                    *)
(*                                                                         *)
(* A CSV file is its lines, each a sequence of field texts (<<>> is an     *)
(* empty line).  A frame is its column labels and its rows; a row is a     *)
(* sequence of cells, one per column; a cell is a str or NaN.              *)
(***************************************************************************)
NaN == <<"<NaN>">>
sSymbol == <<"S","y","m","b","o","l">>
sDateTime == <<"D","a","t","e","/","T","i","m","e">>
sQuantity == <<"Q","u","a","n","t","i","t","y">>
sProceeds == <<"P","r","o","c","e","e","d","s">>
sCommFee == <<"C","o","m","m","/","F","e","e">>
sCode == <<"C","o","d","e">>
sTPrice == <<"T","."," ","P","r","i","c","e">>
sCPrice == <<"C","."," ","P","r","i","c","e">>
sTotal == <<"T","o","t","a","l">>
sNanText == <<"n","a","n">>

\* the field texts read_csv reads as missing (some of its default na_values)
NaStrings == {<<>>, <<"n","a","n">>, <<"N","a","N">>, <<"N","A">>}
ReadField(f) == IF f \in NaStrings THEN NaN ELSE f

\* names=range(20)
ReadWidth == 20

\* pd.read_csv(filepath, header=None, names=range(20)): empty lines are
\* skipped, every other line becomes a row of 20 cells, short lines padded
\* with NaN
ReadCsv(lines) ==
    LET kept == SelectSeq(lines, LAMBDA l : l # <<>>)
    IN  [i \in DOMAIN kept |->
            [c \in 1..ReadWidth |->
                IF c <= Len(kept[i]) THEN ReadField(kept[i][c]) ELSE NaN]]

RECURSIVE SortedSeq(_)
\* the members of a set of integers in ascending order
SortedSeq(S) ==
    IF S = {} THEN <<>>
    ELSE LET lo == CHOOSE x \in S : \A y \in S : x <= y
         IN  <<lo>> \o SortedSeq(S \ {lo})

\* the rows cut down to the columns at the positions `cols`
Project(rows, cols) ==
    [i \in DOMAIN rows |-> [k \in DOMAIN cols |-> rows[i][cols[k]]]]

\* the all-NaN rows left in place
DropEmptyRows_KeepAll(rows) == rows

\* dropna(axis=0, how='all'): rows with every cell NaN go
DropEmptyRows(rows) == SelectSeq(rows, LAMBDA r : \E c \in DOMAIN r : r[c] # NaN)

\* dropna(axis=1, how='all'): columns with every cell NaN go
DropEmptyCols(rows) ==
    Project(rows, SortedSeq({c \in 1..ReadWidth : \E i \in DOMAIN rows : rows[i][c] # NaN}))

\* astype(str) on a cell: NaN becomes 'nan'
AsStr(v) == IF v = NaN THEN sNanText ELSE v
\* fillna('').astype(str)
FillStr(v) == IF v = NaN THEN <<>> ELSE v

Frame(columns, rows) == [columns |-> columns, rows |-> rows]
HasCol(df, label) == \E k \in DOMAIN df.columns : df.columns[k] = label
\* df[label]: the position of the column (labels are distinct)
Col(df, label) == CHOOSE k \in DOMAIN df.columns : df.columns[k] = label

\* the mask of _filter_aggregate_rows for one row: Symbol starts with
\* 'Total', Code is '', T. Price and C. Price are '' once stripped
IsAggregate(df, row) ==
    /\ StartsWith(FillStr(row[Col(df, sSymbol)]), sTotal)
    /\ FillStr(row[Col(df, sCode)]) = <<>>
    /\ StrStrip(FillStr(row[Col(df, sTPrice)])) = <<>>
    /\ StrStrip(FillStr(row[Col(df, sCPrice)])) = <<>>

\* s without its first member that satisfies Test
DropFirst(s, Test(_)) ==
    LET hits == {i \in DOMAIN s : Test(s[i])}
    IN  IF hits = {} THEN s
        ELSE LET h == CHOOSE i \in hits : \A j \in hits : i <= j
             IN  SubSeq(s, 1, h - 1) \o SubSeq(s, h + 1, Len(s))

\* only the first aggregate row removed
FilterAggregateRows_FirstOnly(df) ==
    IF \E l \in {sSymbol, sCode, sTPrice, sCPrice} : ~HasCol(df, l)
    THEN Raised("KeyError")
    ELSE [kind |-> "value",
          df |-> Frame(df.columns, DropFirst(df.rows, LAMBDA r : IsAggregate(df, r)))]

\* _filter_aggregate_rows: df[~is_aggregate], or the KeyError of the first
\* column the frame lacks
FilterAggregateRows(df) ==
    IF \E l \in {sSymbol, sCode, sTPrice, sCPrice} : ~HasCol(df, l)
    THEN Raised("KeyError")
    ELSE [kind |-> "value",
          df |-> Frame(df.columns, SelectSeq(df.rows, LAMBDA r : ~IsAggregate(df, r)))]

\* new_header = df.iloc[0].astype(str).str.strip()
NewHeader(first) == [k \in DOMAIN first |-> StrStrip(AsStr(first[k]))]

\* steps 4 and 5: the rows after the first, under the new labels, without
\* the columns labelled '' or 'nan'
PromoteHeader(rows) ==
    LET new_header == NewHeader(rows[1])
        keep == SortedSeq({k \in DOMAIN new_header :
                              new_header[k] # <<>> /\ new_header[k] # sNanText})
    IN  Frame([k \in DOMAIN keep |-> new_header[keep[k]]], Project(Tail(rows), keep))

\* load_and_normalize_csv: the normalized frame, or the exception raised
load_and_normalize_csv(lines) ==
    LET df == DropEmptyCols(DropEmptyRows(ReadCsv(lines)))
    IN  IF df = <<>> THEN Raised("ValueError: no valid data rows")
        ELSE IF sSymbol \notin Range(NewHeader(df[1]))
        THEN Raised("ValueError: Header Check Failed")
        ELSE FilterAggregateRows(PromoteHeader(df))

\* the lines a file is made of
sDate1 == <<"2","0","2","5","-","0","1","-","0","2",","," ","0","9",":","3","0",":","0","0">>
HeaderLine == <<sSymbol, sDateTime, sCode, sTPrice, sCPrice>>
PaddedHeaderLine == <<<<" ","S","y","m","b","o","l"," ">>, sDateTime, sCode, sTPrice, sCPrice, <<>>, <<" "," ">>>>
NoCodeHeaderLine == <<sSymbol, sDateTime, sTPrice, sCPrice>>
EmptyLine == <<>>
EmptyFieldsLine == <<<<>>, <<>>, <<>>, <<>>, <<>>>>
TradeLine == <<<<"A","M","A","T">>, sDate1, <<"O">>, <<"1">>, <<"2">>, <<"x">>, <<"y">>>>
TotalTradeLine == <<<<"T","o","t","a","l"," ","X">>, sDate1, <<"C">>, <<"1">>>>
AggregateLine == <<<<"T","o","t","a","l"," ","A","M","A","T">>, <<>>, <<>>, <<" ">>, <<>>>>
NoiseLine == <<<<>>, <<>>, <<" ">>>>
LinePool ==
    {HeaderLine, PaddedHeaderLine, NoCodeHeaderLine, EmptyLine, EmptyFieldsLine,
     TradeLine, TotalTradeLine, AggregateLine, NoiseLine}
MaxLines == 4

NormInit ==
    /\ pc = "load"
    /\ file \in UNION {[1..n -> LinePool] : n \in 0..MaxLines}
    /\ norm = NoResult
    /\ PureIdle /\ GridIdle /\ JobIdle /\ FilterIdle /\ BatchIdle

Load ==
    /\ pc = "load"
    /\ norm' = load_and_normalize_csv(file)
    /\ pc' = "loaded"
    /\ UNCHANGED <<file, NotNorm>>

NormNext == Load
SpecNormalize == NormInit /\ [][NormNext]_vars

(***************************************************************************)
(* StatementCleaner._remove_metadata_rows (cleaning.py) and the two row    *)
(* filters applied repeatedly                                              *)
(***************************************************************************)
sCarriedBy == <<"C","a","r","r","i","e","d"," ","b","y">>
sTotalSpace == <<"T","o","t","a","l"," ">>
\* the labels compared with ==
MetadataLabels == {<<"S","t","o","c","k","s">>, <<"C","r","y","p","t","o">>, <<"F","o","r","e","x">>, <<"G","B","P">>, <<"B","T","C",".","U","S","D","-","P","A","X","O","S">>}

\* mask_to_remove for one Symbol cell
IsMetadataSymbol(cell) ==
    LET symbol == AsStr(cell)
    IN  \/ StartsWith(symbol, sCarriedBy)
        \/ StartsWith(symbol, sTotalSpace)
        \/ symbol \in MetadataLabels

\* _remove_metadata_rows: rows with a missing Total go when there is a Total
\* column, then the rows the mask names when there is a Symbol column
RemoveMetadataRows(df) ==
    LET step1 == IF HasCol(df, sTotal)
                 THEN SelectSeq(df.rows, LAMBDA r : r[Col(df, sTotal)] # NaN)
                 ELSE df.rows
        step2 == IF HasCol(df, sSymbol)
                 THEN SelectSeq(step1, LAMBDA r : ~IsMetadataSymbol(r[Col(df, sSymbol)]))
                 ELSE step1
    IN  [kind |-> "value", df |-> Frame(df.columns, step2)]

\* the frames the filters are tried on
AggSymbolPool == {NaN, <<"T","o","t","a","l"," ","X">>, <<" ","T","o","t","a","l">>, <<"A","M","A","T">>}
AggCodePool == {NaN, <<" ">>, <<"O">>}
AggTPricePool == {NaN, <<" ">>}
AggCPricePool == {NaN, <<"1">>}
AggRowPool ==
    {<<a, b, c, d>> : a \in AggSymbolPool, b \in AggCodePool,
                      c \in AggTPricePool, d \in AggCPricePool}
AggColumns == <<sSymbol, sCode, sTPrice, sCPrice>>
\* a frame without the C. Price column, under other labels
AggColumnsShort == <<sSymbol, sCode, sTPrice, sDateTime>>
MetaSymbolPool ==
    {NaN, <<"T","o","t","a","l"," ","X">>, <<"T","o","t","a","l">>, <<"S","t","o","c","k","s">>, <<"C","a","r","r","i","e","d"," ","b","y"," ","Y">>, <<"G","B","P">>, <<"A","M","A","T">>}
MetaTotalPool == {NaN, <<"1">>}
MetaRowPool == {<<a, b>> : a \in MetaSymbolPool, b \in MetaTotalPool}
MetaColumnsPool == {<<sSymbol, sTotal>>, <<sSymbol, sDateTime>>, <<sDateTime, sTotal>>}
MaxTableRows == 2
MaxPasses == 2

RowSeqs(pool) == UNION {[1..n -> pool] : n \in 0..MaxTableRows}

FilterInit ==
    /\ pc = "filter"
    /\ \/ /\ which = "aggregate"
          /\ \E cols \in {AggColumns, AggColumnsShort} :
                table \in {Frame(cols, rows) : rows \in RowSeqs(AggRowPool)}
       \/ /\ which = "metadata"
          /\ \E cols \in MetaColumnsPool :
                table \in {Frame(cols, rows) : rows \in RowSeqs(MetaRowPool)}
    /\ passes = 0
    /\ once = NoResult
    /\ orig = table
    /\ PureIdle /\ GridIdle /\ JobIdle /\ NormIdle /\ BatchIdle

\* the filter named by `which`, applied to a frame
RowFilter(w, df) ==
    IF w = "aggregate" THEN FilterAggregateRows(df) ELSE RemoveMetadataRows(df)

\* the filter is applied to the current frame and its result kept
ApplyFilter ==
    /\ pc = "filter"
    /\ passes < MaxPasses
    /\ RowFilter(which, table).kind = "value"
    /\ table' = RowFilter(which, table).df
    /\ passes' = passes + 1
    /\ once' = IF passes = 0 THEN table' ELSE once
    /\ UNCHANGED <<pc, which, orig, NotFilter>>

\* the filter raises (a column it reads is missing)
FilterRaises ==
    /\ pc = "filter"
    /\ RowFilter(which, table).kind = "raise"
    /\ pc' = "raised"
    /\ UNCHANGED <<filterVars, NotFilter>>

FilterNext == ApplyFilter \/ FilterRaises
SpecFilter == FilterInit /\ [][FilterNext]_vars

(***************************************************************************)
(* The ledger script: trades_cleaning.py __main__, with calculate_net_cash *)
(* and assign_buy_sell_action                                              *)
(***************************************************************************)
\* the characters in code-point order, for str comparison
CodePoints ==
    <<"\t", " ", "'", ",", "-", ".", "/">> \o DigitSeq \o <<":", ";", "<", ">">>
        \o UpperSeq \o LowerSeq
Ord(c) == IndexIn(CodePoints, c)

RECURSIVE StrLess(_, _)
\* a < b for two str
StrLess(a, b) ==
    IF b = <<>> THEN FALSE
    ELSE IF a = <<>> THEN TRUE
    ELSE IF Head(a) = Head(b) THEN StrLess(Tail(a), Tail(b))
    ELSE Ord(Head(a)) < Ord(Head(b))

\* a number: n / 10^k with no trailing zero in the fraction, or NaN
NumNaN == [nan |-> TRUE]
RECURSIVE Norm10(_, _)
Norm10(n, k) ==
    IF k > 0 /\ n % 10 = 0 THEN Norm10(n \div 10, k - 1)
    ELSE [nan |-> FALSE, n |-> n, k |-> k]
RECURSIVE Pow10(_)
Pow10(k) == IF k = 0 THEN 1 ELSE 10 * Pow10(k - 1)

\* a + b, NaN when either is
NumAdd(a, b) ==
    IF a.nan \/ b.nan THEN NumNaN
    ELSE LET k == IF a.k > b.k THEN a.k ELSE b.k
         IN  Norm10(a.n * Pow10(k - a.k) + b.n * Pow10(k - b.k), k)
\* a < 0, False for NaN
NumNegative(a) == ~a.nan /\ a.n < 0

\* pd.to_numeric(text, errors='coerce') for a sign, digits and at most one
\* decimal point; NaN for anything else
ToNumeric(text) ==
    LET neg  == text # <<>> /\ Head(text) = "-"
        body == IF text # <<>> /\ Head(text) \in {"-", "+"} THEN Tail(text) ELSE text
        dots == {i \in DOMAIN body : body[i] = "."}
        p    == IF dots = {} THEN Len(body) + 1 ELSE CHOOSE i \in dots : TRUE
        ds   == SelectSeq(body, LAMBDA c : c # ".")
    IN  IF \/ \E i \in DOMAIN body : body[i] \notin DigitSet \cup {"."}
           \/ Cardinality(dots) > 1
           \/ ds = <<>>
        THEN NumNaN
        ELSE Norm10((IF neg THEN -1 ELSE 1) * DigitsVal(ds), Len(body) - p + (IF dots = {} THEN 1 ELSE 0))

\* astype(str).str.replace(',', '').apply(pd.to_numeric, errors='coerce')
CleanNumeric(v) == ToNumeric(SelectSeq(AsStr(v), LAMBDA c : c # ","))

\* calculate_net_cash
calculate_net_cash(proceeds, fee) == NumAdd(proceeds, fee)
\* assign_buy_sell_action
assign_buy_sell_action(qty) == IF NumNegative(qty) THEN "SELL" ELSE "BUY"

NaT == [nat |-> TRUE]
\* pd.to_datetime(text, errors='coerce') for the statement's
\* 'YYYY-MM-DD, HH:MM:SS'; NaT for a missing or any other value
ToDatetime(v) ==
    LET num(i, j) == DigitsVal(SubSeq(v, i, j))
    IN  IF \/ v = NaN
           \/ Len(v) # 20
           \/ \E i \in {1, 2, 3, 4, 6, 7, 9, 10, 13, 14, 16, 17, 19, 20} : v[i] \notin DigitSet
           \/ <<v[5], v[8], v[11], v[12], v[15], v[18]>> # <<"-", "-", ",", " ", ":", ":">>
        THEN NaT
        ELSE IF \/ num(6, 7) < 1 \/ num(6, 7) > 12 \/ num(1, 4) < 1
                \/ num(13, 14) > 23 \/ num(16, 17) > 59 \/ num(19, 20) > 59
        THEN NaT
        ELSE IF num(9, 10) < 1 \/ num(9, 10) > DaysIn(num(1, 4), num(6, 7)) THEN NaT
        ELSE [nat |-> FALSE, y |-> num(1, 4), m |-> num(6, 7), d |-> num(9, 10),
              s |-> 3600 * num(13, 14) + 60 * num(16, 17) + num(19, 20)]
\* .dt.date
DateOf(ts) == [y |-> ts.y, m |-> ts.m, d |-> ts.d]
DateLess(a, b) ==
    \/ a.y < b.y
    \/ a.y = b.y /\ a.m < b.m
    \/ a.y = b.y /\ a.m = b.m /\ a.d < b.d

RECURSIVE OrderedUnion(_, _)
\* the labels of a followed by the labels of b that a lacks
OrderedUnion(a, b) ==
    IF b = <<>> THEN a
    ELSE IF Head(b) \in Range(a) THEN OrderedUnion(a, Tail(b))
    ELSE OrderedUnion(Append(a, Head(b)), Tail(b))

RECURSIVE UnionColumns(_)
UnionColumns(dfs) ==
    IF dfs = <<>> THEN <<>>
    ELSE OrderedUnion(Head(dfs).columns, UnionColumns(Tail(dfs)))

\* the rows of df under the labels `columns`: NaN where df has no such column
Reindex(df, columns) ==
    [i \in DOMAIN df.rows |->
        [k \in DOMAIN columns |->
            IF HasCol(df, columns[k]) THEN df.rows[i][Col(df, columns[k])] ELSE NaN]]

\* rows with an earlier equal row left out
Dedup(rows) ==
    SelectSeq([i \in DOMAIN rows |-> <<i, rows[i]>>],
              LAMBDA p : ~\E j \in 1..(p[1] - 1) : rows[j] = p[2])

\* the frames one after another, each row once
Concat_DropDuplicates(dfs) ==
    LET all == ConcatAll([i \in DOMAIN dfs |-> Reindex(dfs[i], UnionColumns(dfs))])
    IN  Frame(UnionColumns(dfs), [i \in DOMAIN Dedup(all) |-> Dedup(all)[i][2]])

\* pd.concat(df_list, ignore_index=True): the union of the columns in order
\* of first appearance, the rows of each frame in turn
Concat(dfs) ==
    Frame(UnionColumns(dfs),
          ConcatAll([i \in DOMAIN dfs |-> Reindex(dfs[i], UnionColumns(dfs))]))

EmptyFrame == Frame(<<>>, <<>>)

\* the sort key compared on the date alone
LedgerLess_DateOnly(a, b) == DateLess(a.Date, b.Date)

\* sort_values(by=['Date', 'Symbol']): a sorts before b
LedgerLess(a, b) ==
    \/ DateLess(a.Date, b.Date)
    \/ a.Date = b.Date /\ StrLess(a.Symbol, b.Symbol)

\* x put after every member that does not sort after it
InsertSorted(sorted, x) ==
    LET later == {i \in DOMAIN sorted : LedgerLess(x, sorted[i])}
        at == IF later = {} THEN Len(sorted) + 1
              ELSE CHOOSE i \in later : \A j \in later : i <= j
    IN  SubSeq(sorted, 1, at - 1) \o <<x>> \o SubSeq(sorted, at, Len(sorted))

RECURSIVE SortValues(_)
\* the rows in key order, equal keys in their order before the sort
SortValues(rows) ==
    IF rows = <<>> THEN <<>>
    ELSE InsertSorted(SortValues(SubSeq(rows, 1, Len(rows) - 1)), rows[Len(rows)])

\* steps A to C of the pipeline for one merged row: the numeric columns
\* cleaned, the symbol parsed, Status, Action and Net Cash computed.
\* idx is the row's index label in the merged frame.
LedgerRow(df, i) ==
    LET row == df.rows[i]
        parsed == parse_ibkr_symbol(AsStr(row[Col(df, sSymbol)]))
        qty == CleanNumeric(row[Col(df, sQuantity)])
    IN  [idx |-> i,
         Date |-> IF HasCol(df, sDateTime) THEN ToDatetime(row[Col(df, sDateTime)]) ELSE NaT,
         Symbol |-> parsed.Symbol,
         Action |-> assign_buy_sell_action(qty),
         Status |-> classify_action(AsStr(row[Col(df, sCode)])),
         Qty |-> qty,
         NetCash |-> calculate_net_cash(CleanNumeric(row[Col(df, sProceeds)]),
                                         CleanNumeric(row[Col(df, sCommFee)])),
         Strike |-> parsed.Strike,
         Expiry |-> parsed.Expiry,
         Instrument |-> parsed.Instrument]

\* the Date step: rows whose Date/Time is NaT go, the time is dropped
WithDate(r) == [r EXCEPT !.Date = DateOf(r.Date)]
DropNaT(rows) == SelectSeq(rows, LAMBDA r : ~r.Date.nat)

\* part 2 of __main__ on a merged frame that is not empty: the final view,
\* or the exception that ends the script (a symbol that does not parse, a
\* column the pipeline reads and no file has)
BuildLedger(df) ==
    IF \E i \in DOMAIN df.rows :
           parse_ibkr_symbol(AsStr(df.rows[i][Col(df, sSymbol)])).kind = "raise"
    THEN Raised("ValueError")
    ELSE IF \E l \in {sCode, sQuantity, sProceeds, sCommFee} : ~HasCol(df, l)
    THEN Raised("KeyError")
    ELSE LET rows == [i \in DOMAIN df.rows |-> LedgerRow(df, i)]
         IN  [kind |-> "value",
              rows |-> IF HasCol(df, sDateTime)
                       THEN SortValues([i \in DOMAIN DropNaT(rows) |-> WithDate(DropNaT(rows)[i])])
                       ELSE rows]

\* the statement files of a run: the lines of each
sDate2 == <<"2","0","2","5","-","0","1","-","0","3",","," ","1","5",":","0","0",":","0","0">>
sDate3 == <<"2","0","2","5","-","0","1","-","0","3",","," ","0","9",":","3","0",":","0","0">>
sDate4 == <<"2","0","2","4","-","1","2","-","3","1",","," ","2","3",":","5","9",":","5","9">>
sNoDate == <<"b","a","d">>
sBadDay == <<"2","0","2","5","-","0","2","-","3","0",","," ","1","0",":","0","0",":","0","0">>
sNote == <<"N","o","t","e">>
LedgerHeader == <<sSymbol, sDateTime, sQuantity, sProceeds, sCommFee, sCode, sTPrice, sCPrice>>
ReorderedHeader == <<sDateTime, sSymbol, sCode, sQuantity, sProceeds, sCommFee, sTPrice, sCPrice, sNote>>
RowBuy == <<<<"A","M","A","T">>, sDate3, <<"1","0">>, <<"-","1",",","0","0","0">>, <<"-","1">>, <<"O">>, <<"1","0","0">>, <<"1","0","1">>>>
RowLate == <<<<"A","M","A","T">>, sDate2, <<"-","5">>, <<"5","0","0",".","5">>, <<"-","0",".","5">>, <<"C">>, <<"1","0","0">>, <<"1","0","1">>>>
RowOpt == <<<<"A","M"," ","0","5","D","E","C","2","5"," ","2","2","0"," ","C">>, sDate1, <<"-","1">>, <<"2","5","0">>, <<"-","1",".","5">>, <<"O">>, <<"2",".","5">>, <<"2",".","6">>>>
RowFirst == <<<<"A","A","A">>, sDate3, <<"1">>, <<"-","1","0">>, <<"0">>, <<"O">>, <<"1","0">>, <<"1","0">>>>
RowOld == <<<<"Z","Z">>, sDate4, <<"2">>, <<"a","b","c">>, <<"-","1">>, <<>>, <<"1">>, <<"1">>>>
RowNoDate == <<<<"Z","Z">>, sNoDate, <<"2">>, <<"2","0">>, <<"-","1">>, <<"O">>, <<"1">>, <<"1">>>>
RowBadDay == <<<<"A","A","A">>, sBadDay, <<"2">>, <<"2","0">>, <<"-","1">>, <<"O">>, <<"1">>, <<"1">>>>
RowAgg == <<<<"T","o","t","a","l"," ","A","M","A","T">>, <<>>, <<"5">>, <<"-","5","0","0">>, <<>>, <<>>, <<>>, <<>>>>
RowBadSymbol == <<<<"A","M"," ","9","9","X","Y","Z","2","5"," ","2","2","0"," ","C">>, sDate1, <<"-","1">>, <<"2","5","0">>, <<"-","1",".","5">>, <<"O">>, <<"2",".","5">>, <<"2",".","6">>>>
UndatedHeader == <<sSymbol, sQuantity, sProceeds, sCommFee, sCode, sTPrice, sCPrice>>
RowUndated == <<<<"Z","Z">>, <<"3">>, <<"-","3","0">>, <<"-","1">>, <<"O">>, <<"1","0">>, <<"1","0">>>>
RowReordered == <<sDate1, <<"Z","Z">>, <<"C">>, <<"-","2">>, <<"3","0">>, <<"-","1">>, <<"1">>, <<"1">>, <<"x">>>>

FileThree == <<LedgerHeader, RowLate, RowOpt, RowBuy>>
FileTwo == <<LedgerHeader, RowFirst, RowOld>>
FileMixed == <<EmptyLine, LedgerHeader, RowBuy, RowAgg, RowNoDate, RowBadDay>>
FileReordered == <<ReorderedHeader, RowReordered>>
FileNoQuantity == <<HeaderLine, TradeLine>>
FileHeaderOnly == <<LedgerHeader>>
FileEmpty == <<>>
FileNoHeader == <<RowBuy, LedgerHeader>>
FileNoCode == <<NoCodeHeaderLine, TradeLine>>
FileBadSymbol == <<LedgerHeader, RowBadSymbol>>
FileNoDateColumn == <<UndatedHeader, RowUndated>>
FilePool ==
    {FileThree, FileTwo, FileMixed, FileReordered, FileNoQuantity, FileHeaderOnly,
     FileEmpty, FileNoHeader, FileNoCode, FileBadSymbol, FileNoDateColumn}
MaxFiles == 2

\* one turn of the file loop with the exception let through
LoopStep_NoExcept(r) ==
    IF r.kind = "value"
    THEN [pc |-> "files", add |-> <<r.df>>, skip |-> <<>>]
    ELSE [pc |-> "aborted", add |-> <<>>, skip |-> <<>>]

\* one turn of the file loop on the outcome r of load_and_normalize_csv:
\* the frame is appended, or the exception is caught and reported
LoopStep(r) ==
    IF r.kind = "value"
    THEN [pc |-> "files", add |-> <<r.df>>, skip |-> <<>>]
    ELSE [pc |-> "files", add |-> <<>>, skip |-> <<r.error>>]

\* DataFrame.empty
IsEmptyFrame(df) == df.columns = <<>> \/ df.rows = <<>>

\* glob.glob returns the files in any order
LedgerInit ==
    /\ pc = "files"
    /\ \E n \in 0..MaxFiles : files \in [1..n -> FilePool]
    /\ fi = 1
    /\ df_list = <<>>
    /\ skipped = <<>>
    /\ full_df = NoResult
    /\ ledger = NoResult
    /\ all_summaries = <<>>
    /\ PureIdle /\ GridIdle /\ JobIdle /\ NormIdle /\ FilterIdle

\* for filename in all_files: try ... except Exception
LoadFile ==
    /\ pc = "files"
    /\ fi <= Len(files)
    /\ LET step == LoopStep(load_and_normalize_csv(files[fi]))
       IN  /\ pc' = step.pc
           /\ df_list' = df_list \o step.add
           /\ skipped' = skipped \o [k \in DOMAIN step.skip |-> [file |-> fi, reason |-> step.skip[k]]]
    /\ fi' = fi + 1
    /\ UNCHANGED <<files, full_df, ledger, all_summaries, NotBatch>>

\* if df_list: pd.concat(...) else: pd.DataFrame()
Merge ==
    /\ pc = "files"
    /\ fi > Len(files)
    /\ full_df' = IF df_list # <<>> THEN Concat(df_list) ELSE EmptyFrame
    /\ pc' = "pipeline"
    /\ UNCHANGED <<files, fi, df_list, skipped, ledger, all_summaries, NotBatch>>

\* if not full_df.empty: is false, the script ends without a ledger
NothingToDo ==
    /\ pc = "pipeline"
    /\ IsEmptyFrame(full_df)
    /\ pc' = "nothing"
    /\ UNCHANGED <<batchVars, NotBatch>>

\* the pipeline raises: the script ends with the exception, no ledger
PipelineRaises ==
    /\ pc = "pipeline"
    /\ ~IsEmptyFrame(full_df)
    /\ BuildLedger(full_df).kind = "raise"
    /\ ledger' = BuildLedger(full_df)
    /\ pc' = "aborted"
    /\ UNCHANGED <<files, fi, df_list, skipped, full_df, all_summaries, NotBatch>>

\* the pipeline and final_view.to_csv('master_ledger.csv', index=False)
SaveLedger ==
    /\ pc = "pipeline"
    /\ ~IsEmptyFrame(full_df)
    /\ BuildLedger(full_df).kind = "value"
    /\ ledger' = BuildLedger(full_df)
    /\ pc' = "saved"
    /\ UNCHANGED <<files, fi, df_list, skipped, full_df, all_summaries, NotBatch>>

LedgerNext == LoadFile \/ Merge \/ NothingToDo \/ PipelineRaises \/ SaveLedger
SpecLedger == LedgerInit /\ [][LedgerNext]_vars

(***************************************************************************)
(* The statement cleaner: StatementCleaner and __main__ of cleaning.py     *)
(***************************************************************************)
sUnrealized == <<"U","n","r","e","a","l","i","z","e","d">>
SummaryTargets ==
    {<<"T","o","t","a","l"," ","S","t","o","c","k","s">>, <<"T","o","t","a","l"," ","E","q","u","i","t","y"," ","a","n","d"," ","I","n","d","e","x"," ","O","p","t","i","o","n","s">>,
     <<"T","o","t","a","l"," ","(","A","l","l"," ","A","s","s","e","t","s",")">>, <<"T","o","t","a","l"," ","(","C","o","m","b","i","n","e","d"," ","A","s","s","e","t","s",")">>}
TargetColumns == {sSymbol, sTotal}

\* pd.read_csv(file_path, header=0): empty lines are skipped, the first
\* line left gives the labels (taken as written: distinct and not empty),
\* every other line a row as wide as the labels, short lines padded with
\* NaN; a file with no line at all is an error
ReadCsvHeader(lines) ==
    LET kept == SelectSeq(lines, LAMBDA l : l # <<>>)
    IN  IF kept = <<>> THEN Raised("EmptyDataError")
        ELSE [kind |-> "value",
              df |-> Frame(kept[1],
                           [i \in 1..(Len(kept) - 1) |->
                               [c \in DOMAIN kept[1] |->
                                   IF c <= Len(kept[i + 1])
                                   THEN ReadField(kept[i + 1][c]) ELSE NaN]])]

\* _filter_realized_columns: the columns left of 'Unrealized'
FilterRealizedColumns(df) ==
    IF ~HasCol(df, sUnrealized)
    THEN Raised("ValueError: 'Unrealized' column not found")
    ELSE LET keep == [k \in 1..(Col(df, sUnrealized) - 1) |-> k]
         IN  [kind |-> "value",
              df |-> Frame(SubSeq(df.columns, 1, Len(keep)), Project(df.rows, keep))]

\* _promote_header: the first row becomes the labels; iloc[0] of a frame
\* without rows is an IndexError
CleanerPromoteHeader(df) ==
    IF df.rows = <<>> THEN Raised("IndexError")
    ELSE [kind |-> "value", df |-> Frame(df.rows[1], Tail(df.rows))]

\* _extract_summaries: target -> the Total of the first row whose Symbol is
\* the target
ExtractSummaries(df) ==
    IF HasCol(df, sSymbol) /\ HasCol(df, sTotal)
    THEN LET hits(t) == {i \in DOMAIN df.rows : df.rows[i][Col(df, sSymbol)] = t}
             first(t) == CHOOSE i \in hits(t) : \A j \in hits(t) : i <= j
         IN  [t \in {u \in SummaryTargets : hits(u) # {}} |->
                 df.rows[first(t)][Col(df, sTotal)]]
    ELSE <<>>

\* _keep_target_columns(['Symbol', 'Total'])
KeepTargetColumns(df) ==
    LET keep == SortedSeq({k \in DOMAIN df.columns : df.columns[k] \in TargetColumns})
    IN  Frame([k \in DOMAIN keep |-> df.columns[keep[k]]], Project(df.rows, keep))

\* StatementCleaner(f).process(): the cleaned frame and the summaries, or
\* the exception raised
CleanStatement(lines) ==
    LET read == ReadCsvHeader(lines)
    IN  IF read.kind = "raise" THEN read
        ELSE LET cut == FilterRealizedColumns(read.df)
             IN  IF cut.kind = "raise" THEN cut
                 ELSE LET promoted == CleanerPromoteHeader(cut.df)
                      IN  IF promoted.kind = "raise" THEN promoted
                          ELSE [kind |-> "value",
                                df |-> KeepTargetColumns(RemoveMetadataRows(promoted.df).df),
                                summaries |-> ExtractSummaries(promoted.df)]

\* the statements tried
TopLine == <<<<"A","s","s","e","t">>, <<"R","e","a","l","i","z","e","d">>, <<"R","e","a","l","i","z","e","d",".","1">>, sUnrealized, <<"U","n","r","e","a","l","i","z","e","d",".","1">>>>
TopLineNoUnrealized == <<<<"A","s","s","e","t">>, <<"R","e","a","l","i","z","e","d">>, <<"R","e","a","l","i","z","e","d",".","1">>, <<"O","t","h","e","r">>, <<"O","t","h","e","r",".","1">>>>
LabelLine == <<sSymbol, <<"C","o","s","t"," ","A","d","j",".">>, sTotal, <<"S","/","T">>, <<"L","/","T">>>>
LabelLineNoTotal == <<sSymbol, <<"C","o","s","t"," ","A","d","j",".">>, <<"O","t","h","e","r">>, <<"S","/","T">>, <<"L","/","T">>>>
StocksLine == <<<<"S","t","o","c","k","s">>>>
GainLine == <<<<"A","M","A","T">>, <<"0">>, <<"1","0",".","5">>, <<"1">>, <<"2">>>>
LossLine == <<<<"Z","Z">>, <<"1">>, <<"-","3">>, <<"3">>, <<"4">>>>
TotalStocksLine == <<<<"T","o","t","a","l"," ","S","t","o","c","k","s">>, <<"0">>, <<"7",".","5">>>>
TotalAllLine == <<<<"T","o","t","a","l"," ","(","A","l","l"," ","A","s","s","e","t","s",")">>, <<"0">>, <<"1",",","0","0","7",".","5">>>>
CurrencyLine == <<<<"G","B","P">>, <<"0">>, <<"1">>>>
StatementOne == <<TopLine, LabelLine, StocksLine, GainLine, LossLine, TotalStocksLine>>
StatementTwo == <<TopLine, EmptyLine, LabelLine, LossLine, CurrencyLine, GainLine, TotalStocksLine, TotalAllLine>>
StatementNoTotal == <<TopLine, LabelLineNoTotal, GainLine, StocksLine>>
StatementNoUnrealized == <<TopLineNoUnrealized, LabelLine, GainLine>>
StatementTopOnly == <<TopLine>>
StatementEmpty == <<EmptyLine>>
StatementPool ==
    {StatementOne, StatementTwo, StatementNoTotal, StatementNoUnrealized,
     StatementTopOnly, StatementEmpty}
\* files = ["output/ibkr_table-1.csv", "output/ibkr_table-2.csv"]
StatementCount == 2

CleanerInit ==
    /\ pc = "clean"
    /\ files \in [1..StatementCount -> StatementPool]
    /\ fi = 1
    /\ df_list = <<>>
    /\ skipped = <<>>
    /\ full_df = NoResult
    /\ ledger = NoResult
    /\ all_summaries = <<>>
    /\ PureIdle /\ GridIdle /\ JobIdle /\ NormIdle /\ FilterIdle

\* for f in files: the statement is cleaned and its results collected
CleanFile ==
    /\ pc = "clean"
    /\ fi <= Len(files)
    /\ CleanStatement(files[fi]).kind = "value"
    /\ df_list' = Append(df_list, CleanStatement(files[fi]).df)
    /\ all_summaries' = CleanStatement(files[fi]).summaries @@ all_summaries
    /\ fi' = fi + 1
    /\ UNCHANGED <<pc, files, skipped, full_df, ledger, NotBatch>>

\* for f in files: the cleaner raises and nothing catches it
CleanRaises ==
    /\ pc = "clean"
    /\ fi <= Len(files)
    /\ CleanStatement(files[fi]).kind = "raise"
    /\ pc' = "clean_aborted"
    /\ UNCHANGED <<batchVars, NotBatch>>

\* final_combined_df = pd.concat(all_dfs, ignore_index=True)
CleanMerge ==
    /\ pc = "clean"
    /\ fi > Len(files)
    /\ full_df' = Concat(df_list)
    /\ pc' = "cleaned"
    /\ UNCHANGED <<files, fi, df_list, skipped, ledger, all_summaries, NotBatch>>

CleanerNext == CleanFile \/ CleanRaises \/ CleanMerge

\* the two scripts that merge per-file tables
MergeInit == LedgerInit \/ CleanerInit
MergeNext == LedgerNext \/ CleanerNext
SpecMerge == MergeInit /\ [][MergeNext]_vars

(***************************************************************************)
(* A table written by _save_table_as_csv and read back by                  *)
(* load_and_normalize_csv                                                  *)
(*                                                                         *)
(* to_csv(quoting=QUOTE_ALL) and read_csv agree on where a field starts    *)
(* and ends, so the file is the rows of field texts that were written.     *)
(***************************************************************************)
\* the grids written: cell texts from a small pool, two columns
EmitTextPool == {<<>>, sSymbol, <<"A","M","A","T">>}
MaxEmitRows == 2

EmitInit ==
    /\ pc = "emit"
    /\ \E r \in 1..MaxEmitRows : grid \in [1..r -> [1..2 -> EmitTextPool]]
    /\ children = <<>> /\ cell_blocks = <<>> /\ ci = 0
    /\ PureIdle /\ JobIdle /\ TablesIdle

\* self._save_table_as_csv(df, output_file)
EmitTable ==
    /\ pc = "emit"
    /\ csv' = <<[name |-> 1, rows |-> SaveTableAsCsv(grid)]>>
    /\ pc' = "emitted"
    /\ UNCHANGED <<pureVars, gridVars, normVars, filterVars, batchVars, service, s3,
                   deletes, polls, last, next_token, all_blocks, ti, output_files,
                   exc, outcome, printed>>

\* load_and_normalize_csv(filename) on the file written
NormalizeTable ==
    /\ pc = "emitted"
    /\ file' = csv[1].rows
    /\ norm' = load_and_normalize_csv(csv[1].rows)
    /\ pc' = "normalized"
    /\ UNCHANGED <<pureVars, gridVars, jobVars, filterVars, batchVars>>

EmitNext == EmitTable \/ NormalizeTable
SpecEmit == EmitInit /\ [][EmitNext]_vars

(***************************************************************************)
(* Claims                                                                  *)
(***************************************************************************)

\* C1 (as stated): classify_action returns OPEN when the upper-cased code
\* contains "O", else CLOSE when it contains "C", "A", "EP" or "EX", else
\* UNKNOWN.
C1_ClassifyAsClaimed ==
    pc = "classified" =>
        LET up == StrUpper(input)
        IN  result.value =
                IF Contains(up, <<"O">>) THEN "OPEN"
                ELSE IF \/ Contains(up, <<"C">>) \/ Contains(up, <<"A">>)
                        \/ Contains(up, <<"E","P">>) \/ Contains(up, <<"E","X">>)
                     THEN "CLOSE"
                ELSE "UNKNOWN"

\* The option grammar, stated on the trimmed description: it starts with
\* TICKER (upper-case letters), one space, EXPIRY (DDMMMYY, a day that exists),
\* one space, STRIKE (digits with at most one decimal point), one space and
\* RIGHT (C or P in either case).  a is where the ticker ends, b where the
\* strike ends.
IsTicker(t) == t # <<>> /\ \A i \in DOMAIN t : t[i] \in UpperSet
IsDecimalToken(t) ==
    /\ \A i \in DOMAIN t : t[i] \in DigitSet \cup {"."}
    /\ \E i \in DOMAIN t : t[i] \in DigitSet
    /\ \A i, j \in DOMAIN t : (t[i] = "." /\ t[j] = ".") => i = j
MonthNo(mmm) == CHOOSE k \in 1..12 : MonthAbbr[k] = mmm
FullYear(e) ==
    LET yy == 10 * DigitVal(e[6]) + DigitVal(e[7])
    IN  IF yy <= 68 THEN 2000 + yy ELSE 1900 + yy
IsRealDate(e) ==
    /\ Len(e) = 7
    /\ \A k \in {1, 2, 6, 7} : e[k] \in DigitSet
    /\ \E k \in 1..12 : MonthAbbr[k] = SubSeq(e, 3, 5)
    /\ LET day == 10 * DigitVal(e[1]) + DigitVal(e[2])
           mo  == MonthNo(SubSeq(e, 3, 5))
           yr  == FullYear(e)
           feb == IF yr % 4 = 0 /\ (yr % 100 # 0 \/ yr % 400 = 0) THEN 29 ELSE 28
           len == <<31, feb, 31, 30, 31, 30, 31, 31, 30, 31, 30, 31>>
       IN  day >= 1 /\ day <= len[mo]
GrammarAt(s, a, b) ==
    /\ a >= 1
    /\ b >= a + 10
    /\ b + 2 <= Len(s)
    /\ IsTicker(SubSeq(s, 1, a))
    /\ s[a + 1] = " "
    /\ IsRealDate(SubSeq(s, a + 2, a + 8))
    /\ s[a + 9] = " "
    /\ IsDecimalToken(SubSeq(s, a + 10, b))
    /\ s[b + 1] = " "
    /\ s[b + 2] \in {"C", "P", "c", "p"}
MatchesGrammar(s) == \E a, b \in 1..Len(s) : GrammarAt(s, a, b)

\* the ISO date the claim expects of a DDMMMYY token: century, YY, "-",
\* the month's number, "-", DD
IsoOf(e) ==
    LET mo == MonthNo(SubSeq(e, 3, 5))
        cc == IF FullYear(e) >= 2000 THEN <<"2","0">> ELSE <<"1","9">>
    IN  cc \o <<e[6], e[7], "-">>
           \o <<DigitChar(mo \div 10), DigitChar(mo % 10)>>
           \o <<"-", e[1], e[2]>>

\* C2: a description that matches the option grammar parses to Symbol = the
\* ticker, Instrument = Call Option for C/c and Put Option for P/p, Strike =
\* the strike token's decimal value and Expiry = the token's ISO date;
\* "05DEC25" gives "2025-12-05" and "220" gives 220.0.
C2_OptionParsed ==
    pc = "parsed" =>
        LET s == StrStrip(input)
        IN  \A a, b \in 1..Len(s) :
                GrammarAt(s, a, b) =>
                    LET e == SubSeq(s, a + 2, a + 8)
                        k == SubSeq(s, a + 10, b)
                    IN  /\ result.kind = "value"
                        /\ result.Symbol = SubSeq(s, 1, a)
                        /\ result.Instrument =
                               (IF s[b + 2] \in {"C", "c"} THEN "Call Option"
                                ELSE "Put Option")
                        /\ result.Strike = FloatOf(k).value
                        /\ result.Expiry = IsoOf(e)
                        /\ (e = <<"0","5","D","E","C","2","5">>
                               => result.Expiry = <<"2","0","2","5","-","1","2","-","0","5">>)
                        /\ (k = <<"2","2","0">> => result.Strike = [int |-> 220, frac |-> <<>>])
                        /\ (k = <<"1","7","2",".","5">>
                               => result.Strike = [int |-> 172, frac |-> <<"5">>])

\* C2's case: a lower-case put on a leap day, with text after the right
C2_Witness ==
    /\ pc = "parsed"
    /\ MatchesGrammar(StrStrip(input))
    /\ tokens.right = <<"p">>
    /\ tokens.expiry = <<"2","9","F","E","B","2","4">>
    /\ tokens.tail # <<>>
    /\ result.kind = "value"
    /\ result.Instrument = "Put Option"
    /\ result.Expiry = <<"2","0","2","4","-","0","2","-","2","9">>

\* C3 (as stated): the parser never raises, and every input that does not
\* match the option grammar returns the stock record: Symbol = the text
\* before the first space, Instrument = Stock, Strike = 0.0, Expiry absent.
C3_ParseTotalAsClaimed ==
    pc = "parsed" =>
        /\ result.kind = "value"
        /\ LET s == StrStrip(input)
           IN  ~MatchesGrammar(s) =>
                   /\ result.Symbol = SplitFirst(s)
                   /\ result.Instrument = "Stock"
                   /\ result.Strike = [int |-> 0, frac |-> <<>>]
                   /\ result.Expiry = None

\* the part of C3 the code keeps: whenever it returns without matching its
\* pattern, it returns the stock record
C3_StockWhenNoMatch ==
    (pc = "parsed" /\ result.kind = "value" /\ result.Instrument = "Stock") =>
        /\ result.Symbol = SplitFirst(StrStrip(input))
        /\ result.Strike = [int |-> 0, frac |-> <<>>]
        /\ result.Expiry = None

\* the three ways C3 fails
C3_RaisesOnBadDate ==
    ~(pc = "parsed" /\ result.kind = "raise"
        /\ tokens.expiry = <<"9","9","X","Y","Z","2","5">>)
C3_RaisesOnBadStrike ==
    ~(pc = "parsed" /\ result.kind = "raise"
        /\ tokens.strike = <<"1",".","2",".","3">>)
C3_OptionOnTwoSpaces ==
    ~(pc = "parsed" /\ result.kind = "value" /\ tokens.n1 = 2
        /\ result.Instrument = "Call Option")

\* the earliest-processed cell whose span covers (r, c); 0 when none does
EarliestCover(r, c) ==
    LET cov == {i \in DOMAIN cell_blocks : Covers(cell_blocks[i], r, c)}
    IN  IF cov = {} THEN 0 ELSE CHOOSE i \in cov : \A j \in cov : i <= j

\* C4 (as stated): in the finished grid every position holds the text of the
\* earliest-processed cell whose span covers it, also when that text is the
\* empty string, and every position no cell covers is the empty string.
C4_FirstWriterWins ==
    pc = "returned" =>
        \A r \in DOMAIN grid : \A c \in DOMAIN grid[r] :
            grid[r][c] = IF EarliestCover(r, c) = 0 THEN <<>>
                         ELSE GetTextFromCell(cell_blocks[EarliestCover(r, c)])

\* C4 (as stated), the step form: a position a cell has been processed for
\* (its span covers it) is never changed by a later cell.
C4_NoLaterChange ==
    [][\A r \in DOMAIN grid : \A c \in DOMAIN grid[r] :
          (pc = "fill" /\ \E i \in 1..(ci - 1) : Covers(cell_blocks[i], r, c))
              => grid'[r][c] = grid[r][c]]_vars

\* what the code does keep: a position holds the text of the earliest
\* covering cell whose text is not empty, and '' when there is none
C4_EarliestNonEmptyWins ==
    pc = "returned" =>
        \A r \in DOMAIN grid : \A c \in DOMAIN grid[r] :
            LET cov == {i \in DOMAIN cell_blocks :
                           /\ Covers(cell_blocks[i], r, c)
                           /\ GetTextFromCell(cell_blocks[i]) # <<>>}
            IN  grid[r][c] = IF cov = {} THEN <<>>
                             ELSE GetTextFromCell(
                                      cell_blocks[CHOOSE i \in cov : \A j \in cov : i <= j])

\* the 2x2 case of C4 with a first cell that has text: all four positions
\* hold it although a later cell overlaps
C4_MergedCellCase ==
    (/\ pc = "returned"
     /\ Len(cell_blocks) = 2
     /\ cell_blocks[1].RowIndex = 1 /\ cell_blocks[1].ColumnIndex = 1
     /\ cell_blocks[1].RowSpan = Present(2) /\ cell_blocks[1].ColumnSpan = Present(2)
     /\ cell_blocks[1].words # <<>>
     /\ cell_blocks[2].RowIndex = 2 /\ cell_blocks[2].ColumnIndex = 2)
        => \A r \in {1, 2} : \A c \in {1, 2} :
               grid[r][c] = GetTextFromCell(cell_blocks[1])

\* the last poll answered FAILED or a status outside PENDING, IN_PROGRESS,
\* SUCCEEDED
JobFailed ==
    /\ last # NoResult
    /\ last.JobStatus \notin {"PENDING", "IN_PROGRESS", "SUCCEEDED"}
Includes(message, part) == \E i \in DOMAIN message : message[i] = part

\* C5 (as stated): when the job reports FAILED or an unexpected status, the
\* call ends in an error whose message includes the service's StatusMessage
\* when there is one, no table CSV has been written, and the call never
\* returns a list of files.
C5_FailureSurfaced ==
    (JobFailed /\ pc \in {"returned", "raised"}) =>
        /\ outcome.kind = "raise"
        /\ last.StatusMessage.has => Includes(outcome.message, last.StatusMessage.v)
        /\ csv = <<>>

\* the parts of C5 the code keeps: a failed job never returns and writes no
\* CSV, and a FAILED job's error carries the StatusMessage
C5_NeverReturnsNoCsv ==
    JobFailed => (pc # "returned" /\ csv = <<>> /\ outcome.kind # "return")
C5_FailedCarriesMessage ==
    (JobFailed /\ last.JobStatus = "FAILED" /\ pc = "raised") =>
        /\ outcome.kind = "raise"
        /\ last.StatusMessage.has => Includes(outcome.message, last.StatusMessage.v)
        /\ ~last.StatusMessage.has => Includes(outcome.message, "Unknown error")

\* a blank row of a file: an empty line, or a line whose fields are all empty
IsBlankLine(l) == \A k \in DOMAIN l : l[k] = <<>>
\* a header row: one of its fields, stripped, is "Symbol"
IsHeaderLine(l) == \E k \in DOMAIN l : StrStrip(l[k]) = <<"S","y","m","b","o","l">>
\* the columns a header row gives: the positions of its fields that are not
\* missing and not blank
LabelledPositions(h) ==
    SortedSeq({k \in DOMAIN h : h[k] \notin NaStrings /\ StrStrip(h[k]) # <<>>})
\* a data line seen under those columns: the field at each position, NaN
\* where the line has none
UnderHeader(h, l) ==
    [k \in DOMAIN LabelledPositions(h) |->
        LET p == LabelledPositions(h)[k]
        IN  IF p <= Len(l) /\ l[p] \notin NaStrings THEN l[p] ELSE NaN]
RECURSIVE IsSubseq(_, _)
\* a is b with some members left out
IsSubseq(a, b) ==
    IF a = <<>> THEN TRUE
    ELSE IF b = <<>> THEN FALSE
    ELSE IF Head(a) = Head(b) THEN IsSubseq(Tail(a), Tail(b))
    ELSE IsSubseq(a, Tail(b))
TwoBlanksThenHeader ==
    /\ Len(file) >= 3
    /\ IsBlankLine(file[1]) /\ IsBlankLine(file[2])
    /\ IsHeaderLine(file[3])

C8_FilterIdempotent ==
    passes >= 2 =>
        /\ table = once
        /\ Len(table.rows) = Len(once.rows)
        /\ RowFilter(which, once).kind = "value"

\* C8's case: a first pass that removed a row and kept one, then a second
\* pass, for each of the two filters
C8_Witness ==
    /\ passes = 2
    /\ which = "aggregate"
    /\ Len(orig.rows) = 2
    /\ Len(once.rows) = 1
    /\ StartsWith(FillStr(once.rows[1][1]), <<"T","o","t","a","l">>)
C8_WitnessMetadata ==
    /\ passes = 2
    /\ which = "metadata"
    /\ Len(orig.rows) = 2
    /\ Len(once.rows) = 1

\* the files of the pool that cannot be normalized, and why: no data rows,
\* no "Symbol" in the first remaining row, a column the row filter reads
\* is missing
C6_BadFiles == {FileEmpty, FileNoHeader, FileNoCode}
C6_Reason(f) ==
    CASE f = FileEmpty -> "ValueError: no valid data rows"
      [] f = FileNoHeader -> "ValueError: Header Check Failed"
      [] f = FileNoCode -> "KeyError"
\* the positions 1..n of the batch that hold a bad file, a good file
C6_Bad(n) == SortedSeq({k \in 1..n : files[k] \in C6_BadFiles})
C6_Good(n) == SortedSeq({k \in 1..n : files[k] \notin C6_BadFiles})
C6_Reports(n) ==
    [i \in DOMAIN C6_Bad(n) |->
        [file |-> C6_Bad(n)[i], reason |-> C6_Reason(files[C6_Bad(n)[i]])]]
C6_Tables(n) ==
    [i \in DOMAIN C6_Good(n) |-> load_and_normalize_csv(files[C6_Good(n)[i]]).df]
\* the row of the merged table that carries `row` of the frame df
C6_Carries(merged, df, row) ==
    \A k \in DOMAIN df.columns :
        /\ HasCol(full_df, df.columns[k])
        /\ merged[Col(full_df, df.columns[k])] = row[k]

\* C6: whatever the batch and wherever the bad files sit, the file loop
\* never ends the run: after the first n files the report holds the number
\* and the reason of exactly the bad ones among them, the list of tables
\* holds the normalized table of every other one, and once merged every row
\* of every good file is in the merged table.
C6_BadFileSkipped ==
    /\ pc = "aborted" => full_df # NoResult
    /\ pc = "files" =>
        /\ fi <= Len(files) + 1
        /\ skipped = C6_Reports(fi - 1)
        /\ df_list = C6_Tables(fi - 1)
    /\ full_df # NoResult =>
        /\ skipped = C6_Reports(Len(files))
        /\ df_list = C6_Tables(Len(files))
        /\ \A i \in DOMAIN df_list : \A j \in DOMAIN df_list[i].rows :
               \E p \in DOMAIN full_df.rows :
                   C6_Carries(full_df.rows[p], df_list[i], df_list[i].rows[j])

\* C6's case: a bad file first, a good file after it, and the ledger saved
\* with the good file's rows
C6_Witness ==
    /\ pc = "saved"
    /\ Len(files) = 2
    /\ files[1] = FileNoHeader
    /\ files[2] = FileThree
    /\ skipped = <<[file |-> 1, reason |-> "ValueError: Header Check Failed"]>>
    /\ Len(ledger.rows) = 3

RECURSIVE C9_RowsBefore(_, _)
\* the number of rows in the first k tables
C9_RowsBefore(dfs, k) ==
    IF k = 0 THEN 0 ELSE C9_RowsBefore(dfs, k - 1) + Len(dfs[k].rows)
\* row j of table k sits at position C9_RowsBefore(k-1)+j of the merged
\* table, cell for cell under the same labels, NaN under the labels the
\* table lacks
C9_SameRow(merged, df, row) ==
    \A c \in DOMAIN full_df.columns :
        merged[c] = IF HasCol(df, full_df.columns[c])
                    THEN row[Col(df, full_df.columns[c])]
                    ELSE NaN
C9_Merged ==
    /\ Len(full_df.rows) = C9_RowsBefore(df_list, Len(df_list))
    /\ \A k \in DOMAIN df_list : \A j \in DOMAIN df_list[k].rows :
           C9_SameRow(full_df.rows[C9_RowsBefore(df_list, k - 1) + j],
                      df_list[k], df_list[k].rows[j])
    /\ \A k \in DOMAIN df_list : \A c \in DOMAIN df_list[k].columns :
           HasCol(full_df, df_list[k].columns[c])

\* the normalized tables of the files that have one, in the order of the files
C9_Normalized ==
    LET ok == SelectSeq(files, LAMBDA f : load_and_normalize_csv(f).kind = "value")
    IN  [k \in DOMAIN ok |-> load_and_normalize_csv(ok[k]).df]

\* C9: once the tables are merged, in the ledger script and in the
\* statement cleaner alike, the merged table is the per-file tables one
\* after another in the order of the files, each with its rows in their own
\* order; its row count is the sum of theirs, so a row that two files share
\* is there twice.
C9_MergeKeepsEveryRow ==
    /\ (full_df # NoResult /\ df_list # <<>>) => C9_Merged
    /\ pc \in {"pipeline", "nothing", "aborted", "saved"} =>
           df_list = C9_Normalized
    /\ pc = "cleaned" =>
           df_list = [k \in DOMAIN files |-> CleanStatement(files[k]).df]

\* C9's case: the same two-row file twice, merged into four rows, the
\* first equal to the third and the second to the fourth
C9_Witness ==
    /\ pc = "saved"
    /\ files = <<FileTwo, FileTwo>>
    /\ Len(full_df.rows) = 4
    /\ full_df.rows[1] = full_df.rows[3]
    /\ full_df.rows[2] = full_df.rows[4]
    /\ Len(ledger.rows) = 4

\* the same for the statement cleaner: two statements that share both of
\* their rows, merged into four
C9_WitnessCleaner ==
    /\ pc = "cleaned"
    /\ files = <<StatementOne, StatementTwo>>
    /\ Len(full_df.rows) = 4
    /\ full_df.rows[1] = full_df.rows[4]
    /\ full_df.rows[2] = full_df.rows[3]

\* the Date/Time texts of the pool that are dates, and the date of each
C10_Dates ==
    {<<sDate1, [y |-> 2025, m |-> 1, d |-> 2]>>,
     <<sDate2, [y |-> 2025, m |-> 1, d |-> 3]>>,
     <<sDate3, [y |-> 2025, m |-> 1, d |-> 3]>>,
     <<sDate4, [y |-> 2024, m |-> 12, d |-> 31]>>}
C10_Parses(cell) == \E p \in C10_Dates : p[1] = cell
C10_DateOf(cell) == (CHOOSE p \in C10_Dates : p[1] = cell)[2]
\* the merged rows whose date parses
C10_Kept == {i \in DOMAIN full_df.rows : C10_Parses(full_df.rows[i][Col(full_df, sDateTime)])}
\* a comes strictly before b in (date, symbol) order
C10_Before(a, b) ==
    \/ DateLess(a.Date, b.Date)
    \/ a.Date = b.Date /\ StrLess(a.Symbol, b.Symbol)
C10_Shape ==
    /\ Len(ledger.rows) = Cardinality(C10_Kept)
    /\ {ledger.rows[i].idx : i \in DOMAIN ledger.rows} = C10_Kept
    /\ \A i \in DOMAIN ledger.rows :
           ledger.rows[i].Date =
               C10_DateOf(full_df.rows[ledger.rows[i].idx][Col(full_df, sDateTime)])
    /\ \A i, j \in DOMAIN ledger.rows :
           i < j =>
               /\ ~C10_Before(ledger.rows[j], ledger.rows[i])
               /\ ~C10_Before(ledger.rows[i], ledger.rows[j])
                      => ledger.rows[i].idx < ledger.rows[j].idx

C10_WitnessThreeAndTwo ==
    /\ pc = "saved"
    /\ files = <<FileThree, FileTwo>>
    /\ Len(ledger.rows) = 5

\* a TABLE block with a CHILD that resolves to a CELL block
C11_HasCells(t) == \E k \in DOMAIN t.kids : t.kids[k].BlockType = "CELL"
\* the tables of the document, and those of the first n with and without cells
C11_Tables == SelectTables(all_blocks)
C11_Written(n) == SortedSeq({k \in 1..n : C11_HasCells(C11_Tables[k])})
C11_Skipped(n) == SortedSeq({k \in 1..n : ~C11_HasCells(C11_Tables[k])})
\* what was printed about tables passed over
C11_SkipReports == SelectSeq(printed, LAMBDA p : p.what = "Could not process Table")
\* after the first n tables: one file for each table with cells, named by
\* the table's number and holding its grid, and one report for each table
\* without
C11_After(n) ==
    /\ output_files = C11_Written(n)
    /\ Len(csv) = Len(output_files)
    /\ \A i \in DOMAIN csv :
           /\ csv[i].name = output_files[i]
           /\ csv[i].rows # <<>>
           /\ csv[i].rows =
                  SaveTableAsCsv(TableToDataframe(C11_Tables[output_files[i]].kids).grid)
    /\ [i \in DOMAIN C11_SkipReports |-> C11_SkipReports[i].n] = C11_Skipped(n)

\* C11: whatever the sequence of TABLE blocks, a table without a resolvable
\* CELL child gives None and is passed over without stopping the loop; every
\* table with cells before and after it is written to its own file; each
\* table passed over is reported, and when the call returns the number
\* passed over is the number of tables reported found less the number of
\* files returned.
C11_SkippedTablesRecoverable ==
    /\ pc = "tables" => (ti <= Len(C11_Tables) + 1 /\ exc = NoResult /\ C11_After(ti - 1))
    /\ (pc = "returned" /\ outcome.kind = "return") =>
           /\ C11_After(Len(C11_Tables))
           /\ outcome.files = output_files
           /\ printed # <<>>
           /\ printed[1] = [what |-> "Found tables", n |-> Len(C11_Tables)]
           /\ Len(C11_SkipReports) = printed[1].n - Len(outcome.files)

\* C11's case: four tables, the first and the last without cells, the call
\* returned with the files of the second and the third
C11_Witness ==
    /\ pc = "returned"
    /\ Len(C11_Tables) = 4
    /\ ~C11_HasCells(C11_Tables[1])
    /\ ~C11_HasCells(C11_Tables[4])
    /\ outcome.kind = "return"
    /\ outcome.files = <<2, 3>>
    /\ Len(C11_SkipReports) = 2

\* a cell that is missing, empty or blank
C12_IsEmpty(cell) == cell = NaN \/ StrStrip(cell) = <<>>

\* C12: no row of a table returned by load_and_normalize_csv has both an
\* empty or missing Symbol and an empty or missing Date/Time.
C12_NoRowWithoutSymbolAndDate ==
    (pc = "loaded" /\ norm.kind = "value" /\ HasCol(norm.df, sDateTime)) =>
        \A i \in DOMAIN norm.df.rows :
            ~(/\ C12_IsEmpty(norm.df.rows[i][Col(norm.df, sSymbol)])
              /\ C12_IsEmpty(norm.df.rows[i][Col(norm.df, sDateTime)]))

\* C13: when the first row of the grid has a cell with text "Symbol", the
\* file _save_table_as_csv writes is accepted by load_and_normalize_csv: the
\* table returned has a column labelled "Symbol" and as many rows as the
\* grid has after its first, each holding the grid row's texts under the
\* labelled columns.
C13_EmittedTableAccepted ==
    (pc = "normalized" /\ \E c \in DOMAIN grid[1] : grid[1][c] = sSymbol) =>
        /\ norm.kind = "value"
        /\ HasCol(norm.df, sSymbol)
        /\ Len(norm.df.rows) = Len(grid) - 1

\* what the normalizer makes of the file instead: never a table with a
\* column labelled "Symbol"
C13_NeverSymbolColumn ==
    pc = "normalized" => (norm.kind = "raise" \/ ~HasCol(norm.df, sSymbol))

\* a cell that is missing, empty or white space only
C14_IsBlank(cell) == StrStrip(FillStr(cell)) = <<>>
\* the row the predicate names: Symbol, trimmed, starts with "Total" and
\* Code, T. Price and C. Price are all blank
C14_IsAggregate(df, row) ==
    /\ StartsWith(StrStrip(FillStr(row[Col(df, sSymbol)])), <<"T","o","t","a","l">>)
    /\ C14_IsBlank(row[Col(df, sCode)])
    /\ C14_IsBlank(row[Col(df, sTPrice)])
    /\ C14_IsBlank(row[Col(df, sCPrice)])

\* C14: _filter_aggregate_rows returns exactly the rows the predicate does
\* not name, in their order: a row goes if and only if its Symbol, trimmed,
\* starts with "Total" and its Code, T. Price and C. Price are all blank.
C14_RemovesExactlyAggregates ==
    (which = "aggregate" /\ passes >= 1) =>
        once.rows = SelectSeq(orig.rows, LAMBDA r : ~C14_IsAggregate(orig, r))

\* the half of C14 the code keeps: every row the predicate does not name is
\* kept, and those rows keep their order
C14_KeepsEveryOtherRow ==
    (which = "aggregate" /\ passes >= 1) =>
        SelectSeq(once.rows, LAMBDA r : ~C14_IsAggregate(orig, r))
            = SelectSeq(orig.rows, LAMBDA r : ~C14_IsAggregate(orig, r))

\* the call is over
C15_Ended == pc \in {"returned", "raised"}
\* every page of the job, in order
C15_AllPages == ConcatAll(service)

\* C15: once the PDF is uploaded, the temporary object is deleted exactly
\* once and only as the call ends, whether it returns or raises (job
\* FAILED, unexpected status, an error while polling, collecting pages or
\* writing files); when the call returns, the delete came after the poll
\* that answered SUCCEEDED and after the last page was collected.
C15_UploadDeletedOnce ==
    /\ deletes <= 1
    /\ (C15_Ended /\ s3 # "none") => (s3 = "deleted" /\ deletes = 1)
    /\ ~C15_Ended => (deletes = 0 /\ s3 # "deleted")
    /\ s3 = "none" => deletes = 0
    /\ (s3 = "deleted" /\ outcome.kind = "return") =>
           /\ last # NoResult
           /\ last.JobStatus = "SUCCEEDED"
           /\ next_token = 0
           /\ all_blocks = C15_AllPages

\* C15's cases: the call ended by an error while writing the second file,
\* by a return, by a FAILED job, by an unexpected status, by an error while
\* collecting the second page; the upload deleted each time
C15_Witness ==
    /\ pc = "raised"
    /\ Len(csv) = 1
    /\ ti = 2
    /\ outcome.message = CollaboratorError
    /\ s3 = "deleted" /\ deletes = 1
C15_WitnessReturn ==
    /\ pc = "returned"
    /\ Len(service) = 2
    /\ polls = 2
    /\ Len(outcome.files) = 2
    /\ s3 = "deleted" /\ deletes = 1
C15_WitnessFailed ==
    /\ pc = "raised"
    /\ last # NoResult
    /\ last.JobStatus = "FAILED"
    /\ s3 = "deleted" /\ deletes = 1
C15_WitnessUnexpected ==
    /\ pc = "raised"
    /\ last # NoResult
    /\ last.JobStatus = "PARTIAL_SUCCESS"
    /\ s3 = "deleted" /\ deletes = 1
C15_WitnessPageError ==
    /\ pc = "raised"
    /\ all_blocks # <<>>
    /\ next_token = 2
    /\ s3 = "deleted" /\ deletes = 1

=============================================================================
